---------------------------- MODULE Spec2Model ----------------------------
(*
  A model of the codats repository:

    src/models.py    the model registry (register_model / get_model /
                     list_models), the gradient reversal function and the
                     model classes built on ModelBase;
    src/analysis.py  the evaluation-log parser parse_file and its helpers.

  Python values are modelled as follows.  A dict is a sequence of
  [key, value] records in insertion order (Python 3.7+ dicts iterate in
  insertion order and assigning to an existing key keeps its position).
  A str is a TLA+ string, read character by character with SubSeq.  A
  tensor is a symbolic term recording the layers it came through.  None is
  the string "None" where a value may be absent.
*)
EXTENDS Integers, Sequences, FiniteSets, TLC

VARIABLES
    models,      \* models.py:11   the registry dict, name -> constructor
    decorators,  \* models.py:19   names for which a decorator closure exists
    regOrder,    \* history: names in the order they entered the registry
    regLatest,   \* history: name -> constructor most recently stored
    last,        \* the most recent registry operation and its outcome
    tape,        \* models.py:38   the flip_gradient call recorded for autodiff
    grads,       \* models.py:43   what grad(dy) returned for the recorded call
    net,         \* the model object: its class and the attributes __init__ set
    run,         \* the most recent call of the model: hooks, layers, result
    learning_phase, \* models.py:117  the Keras learning phase (global)
    file,        \* analysis.py:110  the lines of the evaluation log
    parsed,      \* analysis.py:89   how parse_file ended on it, with its tables
    reader,      \* analysis.py:111  a parse_file call in progress: its loop
                 \*                  state and the number of lines it has read
    splitLine,   \* analysis.py:132  a line handed to smart_split
    splitValues, \* analysis.py:132  what smart_split returned for it
    results,     \* analysis.py:315  what all_stats(files) returns
    ms_results   \* analysis.py:312  plot_multisource's ms_results, aggregated

regVars == <<models, decorators, regOrder, regLatest, last>>
gradVars == <<tape, grads>>
netVars == <<net, run, learning_phase>>
parseVars == <<file, parsed>>
readVars == <<reader>>
splitVars == <<splitLine, splitValues>>
plotVars == <<results, ms_results>>

\* What the operations of one part leave alone
notRegistry == <<gradVars, netVars, parseVars, readVars, splitVars, plotVars>>
notGradient == <<regVars, netVars, parseVars, readVars, splitVars, plotVars>>
notNet == <<regVars, gradVars, parseVars, readVars, splitVars, plotVars>>
notParse == <<regVars, gradVars, netVars, readVars, splitVars, plotVars>>
notRead == <<regVars, gradVars, netVars, parseVars, splitVars, plotVars>>
notSplit == <<regVars, gradVars, netVars, parseVars, readVars, plotVars>>
notPlot == <<regVars, gradVars, netVars, parseVars, readVars, splitVars>>

vars == <<models, decorators, regOrder, regLatest, last, tape, grads,
         net, run, learning_phase, file, parsed, reader, splitLine,
         splitValues, results, ms_results>>

None == "None"

--------------------------------------------------------------------------
(* Bounds of the registry model *)

NumNames == 3
NumConstructors == 2
NumArgLists == 2

NameList == <<"fcn", "inceptiontime", "mlp", "resnet", "timenet">>
ConstructorList == <<"make_model_fcn", "make_model_inceptiontime",
                     "make_mlp_model", "make_resnet_model",
                     "make_timenet_model">>
ArgListList == << <<2, 2>>, <<6, 3>>, <<10, 2>>, <<31, 2>> >>

Names == {NameList[i] : i \in 1..NumNames}
Constructors == {ConstructorList[i] : i \in 1..NumConstructors}
ArgLists == {ArgListList[i] : i \in 1..NumArgLists}

--------------------------------------------------------------------------
(* Python dict operations on the insertion-ordered representation *)

\* list(d.keys())
DictKeys(d) == [i \in 1..Len(d) |-> d[i].key]

\* key in d
DictHas(d, k) == \E i \in 1..Len(d) : d[i].key = k

\* d[k] for a key that is present
DictGet(d, k) == d[CHOOSE i \in 1..Len(d) : d[i].key = k].value

\* d[k] = v written as delete-then-insert: an overwritten key moves to the end
DictSet_MoveToEnd(d, k, v) ==
    Append(SelectSeq(d, LAMBDA e : e.key # k), [key |-> k, value |-> v])

\* d[k] = v
DictSet(d, k, v) ==
    IF DictHas(d, k)
    THEN [i \in 1..Len(d) |-> IF d[i].key = k THEN [key |-> k, value |-> v]
                                            ELSE d[i]]
    ELSE Append(d, [key |-> k, value |-> v])

\* A network component: who built it, from which arguments, which part of
\* the model it is, and which copy (0 the original, i the i-th clone)
Component(made_by, args, part) ==
    [made_by |-> made_by, args |-> args, part |-> part, copy |-> 0]

\* The value a registered constructor returns when called with args:
\* return feature_extractor, task_classifier, domain_classifier
Apply(cls, args) ==
    << Component(cls, args, "feature_extractor"),
       Component(cls, args, "task_classifier"),
       Component(cls, args, "domain_classifier") >>

--------------------------------------------------------------------------
(* The registry: register_model, its decorator, get_model, list_models *)

AssertDuplicate == "AssertionError: duplicate model named"
AssertUnknown == "AssertionError: Unknown model name"

\* get_model that forwards no arguments: models[name]()
get_model_DropsArgs(d, name, args) ==
    IF DictHas(d, name)
    THEN [raised  |-> None,
          invoked |-> << [cls |-> DictGet(d, name), args |-> << >>] >>,
          ret     |-> Apply(DictGet(d, name), << >>)]
    ELSE [raised  |-> AssertUnknown,
          invoked |-> << >>,
          ret     |-> None]

\* get_model without the assertion, falling back to the first registered model
get_model_Fallback(d, name, args) ==
    IF DictHas(d, name)
    THEN [raised  |-> None,
          invoked |-> << [cls |-> DictGet(d, name), args |-> args] >>,
          ret     |-> Apply(DictGet(d, name), args)]
    ELSE IF Len(d) > 0
    THEN [raised  |-> None,
          invoked |-> << [cls |-> d[1].value, args |-> args] >>,
          ret     |-> Apply(d[1].value, args)]
    ELSE [raised  |-> "KeyError",
          invoked |-> << >>,
          ret     |-> None]

\* What get_model(name, *args) invokes and returns on registry d
get_model(d, name, args) ==
    IF DictHas(d, name)
    THEN [raised  |-> None,
          invoked |-> << [cls |-> DictGet(d, name), args |-> args] >>,
          ret     |-> Apply(DictGet(d, name), args)]
    ELSE [raised  |-> AssertUnknown,
          invoked |-> << >>,
          ret     |-> None]

\* list_models()
list_models(d) == DictKeys(d)

\* register_model without the duplicate assertion
RegisterModel_NoAssert(name) ==
    /\ decorators' = decorators \cup {name}
    /\ last' = [op |-> "register_model", name |-> name, args |-> << >>,
                before |-> models, raised |-> None,
                invoked |-> << >>, ret |-> "decorator"]
    /\ UNCHANGED <<models, regOrder, regLatest, notRegistry>>

\* register_model(name): the assertion, then the decorator closure is made
RegisterModel(name) ==
    /\ IF DictHas(models, name)
       THEN /\ decorators' = decorators
            /\ last' = [op |-> "register_model", name |-> name, args |-> << >>,
                        before |-> models, raised |-> AssertDuplicate,
                        invoked |-> << >>, ret |-> None]
       ELSE /\ decorators' = decorators \cup {name}
            /\ last' = [op |-> "register_model", name |-> name, args |-> << >>,
                        before |-> models, raised |-> None,
                        invoked |-> << >>, ret |-> "decorator"]
    /\ UNCHANGED <<models, regOrder, regLatest, notRegistry>>

\* decorator(cls), the closure returned by register_model(name)
Decorator(name, cls) ==
    /\ name \in decorators
    /\ models' = DictSet(models, name, cls)
    /\ regOrder' = IF \E i \in 1..Len(regOrder) : regOrder[i] = name
                   THEN regOrder ELSE Append(regOrder, name)
    /\ regLatest' = [regLatest EXCEPT ![name] = cls]
    /\ last' = [op |-> "decorator", name |-> name, args |-> << >>,
                before |-> models, raised |-> None,
                invoked |-> << >>, ret |-> cls]
    /\ UNCHANGED <<decorators, notRegistry>>

GetModel(name, args) ==
    /\ last' = [op |-> "get_model", name |-> name, args |-> args,
                before |-> models,
                raised |-> get_model(models, name, args).raised,
                invoked |-> get_model(models, name, args).invoked,
                ret |-> get_model(models, name, args).ret]
    /\ UNCHANGED <<models, decorators, regOrder, regLatest, notRegistry>>

ListModels ==
    /\ last' = [op |-> "list_models", name |-> None, args |-> << >>,
                before |-> models, raised |-> None,
                invoked |-> << >>, ret |-> list_models(models)]
    /\ UNCHANGED <<models, decorators, regOrder, regLatest, notRegistry>>

\* No registry operation yet
NoOperation ==
    [op |-> "import", name |-> None, args |-> << >>, before |-> << >>,
     raised |-> None, invoked |-> << >>, ret |-> None]

NextRegistry ==
    \/ \E name \in Names : RegisterModel(name)
    \/ \E name \in Names, cls \in Constructors : Decorator(name, cls)
    \/ \E name \in Names, args \in ArgLists : GetModel(name, args)
    \/ ListModels

--------------------------------------------------------------------------
(* The gradient reversal function.  Tensors are sequences of numbers; the
   numbers are integers, which float32 holds exactly below 2^24. *)

MaxTensorLen == 2

RECURSIVE Pow2(_)
Pow2(n) == IF n = 0 THEN 1 ELSE 2 * Pow2(n - 1)

\* The spacing of float32 values around magnitude m (24-bit significand)
RECURSIVE Ulp32(_)
Ulp32(m) == IF m < Pow2(24) THEN 1 ELSE 2 * Ulp32(m \div 2)

\* Round the magnitude m to the nearest float32, ties to even
RoundMag32(m) ==
    LET q == Ulp32(m)
        lo == (m \div q) * q
        r == m - lo
    IN  IF 2 * r < q THEN lo
        ELSE IF 2 * r > q THEN lo + q
        ELSE IF (lo \div q) % 2 = 0 THEN lo ELSE lo + q

\* tf.cast(v, dtype=tf.float32)
Cast32(v) == IF v < 0 THEN -RoundMag32(-v) ELSE RoundMag32(v)

\* float32 product
Mul32(a, b) == Cast32(a * b)

\* tf.negative(t), elementwise
Negative(t) == [i \in DOMAIN t |-> -t[i]]

\* tf.ones_like(t)
OnesLike(t) == [i \in DOMAIN t |-> 1]

\* t * c for a scalar c
ScaleBy(t, c) == [i \in DOMAIN t |-> Mul32(t[i], c)]

\* a * b elementwise for tensors of one shape
MulElem(a, b) == [i \in DOMAIN a |-> Mul32(a[i], b[i])]

ScalarValues == {-3, 0, 2}
LambdaValues == {0, 1, 2, Pow2(24) + 2}

Tensors == UNION {[1..n -> ScalarValues] : n \in 1..MaxTensorLen}

\* grad(dy) without tf.negative
flip_gradient_grad_NoNegate(x, lam, dy) ==
    [dx |-> MulElem(ScaleBy(dy, lam), OnesLike(x)), dlambda |-> 0]

\* grad(dy), the closure of flip_gradient over x and the cast grl_lambda
flip_gradient_grad(x, lam, dy) ==
    [dx |-> MulElem(ScaleBy(Negative(dy), lam), OnesLike(x)), dlambda |-> 0]

\* flip_gradient(x, grl_lambda): the forward value and what grad closes over
flip_gradient(x, grl_lambda) ==
    [called |-> TRUE, y |-> x, x |-> x, lam |-> Cast32(grl_lambda),
     arg |-> grl_lambda]

\* Nothing recorded, no gradient computed
NoTape == [called |-> FALSE, y |-> << >>, x |-> << >>, lam |-> 0, arg |-> 0]
NoGrads == [called |-> FALSE, dy |-> << >>, dx |-> << >>, dlambda |-> 0]

\* FlipGradient.call: the forward pass
Forward(x, grl_lambda) ==
    /\ tape' = flip_gradient(x, grl_lambda)
    /\ grads' = NoGrads
    /\ UNCHANGED notGradient

\* The backward pass through the recorded call, with upstream gradient dy
Backward(dy) ==
    /\ tape.called
    /\ DOMAIN dy = DOMAIN tape.y
    /\ grads' = [called |-> TRUE, dy |-> dy]
                   @@ flip_gradient_grad(tape.x, tape.lam, dy)
    /\ UNCHANGED <<tape, notGradient>>

NextGradient ==
    \/ \E x \in Tensors, l \in LambdaValues : Forward(x, l)
    \/ \E dy \in Tensors : Backward(dy)

--------------------------------------------------------------------------
(* The model classes.  A tensor is a term [op, layer, args]: the output of
   layer `layer` applied to the terms `args`; op is the layer's part. *)

MaxComponents == 3
NumInputs == 2

Classes == {"BasicModel", "DannModel", "HeterogeneousDannModel", "SleepModel",
            "DannSmoothModel", "VradaModel", "RDannModel"}

\* class X(DannModelBase, ...)
IsDann(cls) == cls \in {"DannModel", "HeterogeneousDannModel", "SleepModel",
                        "DannSmoothModel", "VradaModel", "RDannModel"}

\* class X(..., RnnModelBase)
IsRnn(cls) == cls \in {"VradaModel", "RDannModel"}

ModelNames == Names \cup {"vgg"}
StepCounts == {80000}
TrainingValues == {"True", "False", "None"}

\* Keyword arguments of a call: which_fe / which_dc, given or left at None
Kwargs == {[given |-> FALSE, which |-> 0]}
             \cup {[given |-> TRUE, which |-> i] : i \in 0..MaxComponents}

Term(op, layer, args) == [op |-> op, layer |-> layer, args |-> args]

InputTerm(i) == Term("input", Component("caller", <<i>>, "input"), << >>)
Inputs == {InputTerm(i) : i \in 1..NumInputs}

\* Python's None where a tensor may stand
NoneTerm == Term("None", Component("None", << >>, "None"), << >>)

\* layer(x): the output tensor of one layer invocation
Out(layer, x) == Term(layer.part, layer, <<x>>)

\* One entry of the trace of layer invocations
Invocation(layer, x) == [layer |-> layer, in |-> x]

NoObject ==
    [built |-> FALSE, cls |-> "None", raised |-> None, num |-> 0,
     feature_extractor |-> << >>, task_classifier |-> << >>,
     domain_classifier |-> << >>, flip_gradient |-> << >>,
     concat |-> << >>, stop_gradient |-> << >>]

\* A clone_model that hands back its argument
clone_model_SameObject(c, i) == c

\* The model has not been called
NoRun ==
    [called |-> FALSE, raised |-> None, hooks |-> << >>, layers |-> << >>,
     fe |-> << >>, ret |-> << >>]

\* tf.keras.models.clone_model(c): the same architecture, a new object
clone_model(c, i) == [c EXCEPT !.copy = i]

\* for i in range(1, n): lst.append(clone_model(c))
RECURSIVE CloneLoop(_, _, _, _)
CloneLoop(lst, c, i, n) ==
    IF i >= n THEN lst
    ELSE CloneLoop(Append(lst, clone_model(c, i)), c, i + 1, n)

\* CnnModelBase.__init__ / RnnModelBase.__init__
BaseInit(cls, num_classes, num_domains, model_name) ==
    IF IsRnn(cls)
    THEN [NoObject EXCEPT
            !.built = TRUE, !.cls = cls,
            !.feature_extractor =
                Component("VradaFeatureExtractor",
                          <<IF cls = "VradaModel" THEN 1 ELSE 0>>,
                          "feature_extractor"),
            !.task_classifier =
                Component("RnnModelBase", <<num_classes>>, "task_classifier"),
            !.domain_classifier =
                Component("RnnModelBase", <<num_domains>>, "domain_classifier")]
    ELSE LET r == get_model(models, model_name, <<num_classes, num_domains>>)
         IN  IF r.raised # None
             THEN [NoObject EXCEPT !.cls = cls, !.raised = r.raised]
             ELSE [NoObject EXCEPT
                     !.built = TRUE, !.cls = cls,
                     !.feature_extractor = r.ret[1],
                     !.task_classifier = r.ret[2],
                     !.domain_classifier = r.ret[3]]

\* DannModelBase.__init__ after super().__init__
DannInit(o, global_step, total_steps) ==
    IF o.built /\ IsDann(o.cls)
    THEN [o EXCEPT !.flip_gradient =
             Component("FlipGradient", <<global_step, total_steps>>,
                       "flip_gradient")]
    ELSE o

\* The __init__ bodies of the leaf classes after super().__init__
LeafInit(o, num) ==
    IF ~o.built THEN o
    ELSE IF o.cls = "HeterogeneousDannModel"
    THEN [o EXCEPT !.num = num,
                   !.feature_extractor =
                       CloneLoop(<<o.feature_extractor>>,
                                 o.feature_extractor, 1, num)]
    ELSE IF o.cls = "DannSmoothModel"
    THEN [o EXCEPT !.num = num,
                   !.domain_classifier =
                       CloneLoop(<<o.domain_classifier>>,
                                 o.domain_classifier, 1, num)]
    ELSE IF o.cls = "SleepModel"
    THEN [o EXCEPT !.concat = Component("Concatenate", <<1>>, "concat"),
                   !.stop_gradient =
                       Component("StopGradient", << >>, "stop_gradient")]
    ELSE o

\* cls(num_classes, num_domains, model_name, global_step, total_steps, ...)
Construct(cls, args, model_name, global_step, total_steps, num) ==
    /\ (cls \notin {"HeterogeneousDannModel", "DannSmoothModel"}) => num = 0
    /\ net' = LeafInit(DannInit(BaseInit(cls, args[1], args[2], model_name),
                                global_step, total_steps), num)
    /\ run' = NoRun
    /\ UNCHANGED <<learning_phase, notNet>>


AssertWhichFe == "AssertionError: must specify which feature extractor to use"
AssertWhichDc == "AssertionError: must specify which domain classifier to use with method Smooth"
IndexError == "IndexError: list index out of range"

\* The result of one hook: what it raised, what it returned, the layers it ran
HookResult(raised, out, layers) ==
    [raised |-> raised, out |-> out, layers |-> layers]

\* VradaFeatureExtractor.call that returns the RNN state whatever vrada is
VradaFeatureExtractor_call_AlwaysState(layer, inputs) ==
    LET rnn == Component("VRNN", <<100, 100>>, "rnn_output")
        fe == Component("VradaFeatureExtractor", layer.args, "fe_output")
    IN  HookResult(None,
                   << Out(fe, Out(rnn, inputs)),
                      Term("rnn_state", rnn, <<inputs>>) >>,
                   << Invocation(rnn, inputs),
                      Invocation(fe, Out(rnn, inputs)) >>)

\* VradaFeatureExtractor.call: (fe_output, rnn_state)
VradaFeatureExtractor_call(layer, inputs) ==
    LET vrada == layer.args = <<1>>
        rnn == IF vrada THEN Component("VRNN", <<100, 100>>, "rnn_output")
                        ELSE Component("LSTM", <<100>>, "rnn_output")
        fe == Component("VradaFeatureExtractor", layer.args, "fe_output")
        rnn_output == Out(rnn, inputs)
        rnn_state == IF vrada THEN Term("rnn_state", rnn, <<inputs>>)
                              ELSE NoneTerm
    IN  HookResult(None,
                   << Out(fe, rnn_output), rnn_state >>,
                   << Invocation(rnn, inputs), Invocation(fe, rnn_output) >>)

\* call_feature_extractor, as the class of o resolves it
call_feature_extractor(o, inputs, kw) ==
    IF o.cls = "HeterogeneousDannModel"
    THEN IF ~kw.given
         THEN HookResult(AssertWhichFe, NoneTerm, << >>)
         ELSE IF kw.which >= Len(o.feature_extractor)
         THEN HookResult(IndexError, NoneTerm, << >>)
         ELSE HookResult(None,
                         Out(o.feature_extractor[kw.which + 1], inputs),
                         << Invocation(o.feature_extractor[kw.which + 1],
                                       inputs) >>)
    ELSE IF IsRnn(o.cls)
    THEN VradaFeatureExtractor_call(o.feature_extractor, inputs)
    ELSE HookResult(None, Out(o.feature_extractor, inputs),
                    << Invocation(o.feature_extractor, inputs) >>)

\* call_task_classifier: the same body in every class
call_task_classifier(o, fe) ==
    HookResult(None, Out(o.task_classifier, fe),
               << Invocation(o.task_classifier, fe) >>)

\* DannModelBase.call_domain_classifier without the gradient reversal layer
DannCallDomain_NoGrl(o, fe) ==
    HookResult(None, Out(o.domain_classifier, fe),
               << Invocation(o.domain_classifier, fe) >>)

\* DannModelBase.call_domain_classifier (and its copy in
\* HeterogeneousDannModel)
DannCallDomain(o, fe) ==
    LET grl_output == Out(o.flip_gradient, fe)
    IN  HookResult(None, Out(o.domain_classifier, grl_output),
                   << Invocation(o.flip_gradient, fe),
                      Invocation(o.domain_classifier, grl_output) >>)

\* SleepModel.call_domain_classifier
SleepCallDomain(o, fe, task) ==
    LET grl_output == Out(o.flip_gradient, fe)
        task_stop_gradient == Out(o.stop_gradient, task)
        domain_input == Term("concat", o.concat,
                             <<grl_output, task_stop_gradient>>)
    IN  HookResult(None, Out(o.domain_classifier, domain_input),
                   << Invocation(o.flip_gradient, fe),
                      Invocation(o.stop_gradient, task),
                      Invocation(o.concat, <<grl_output, task_stop_gradient>>),
                      Invocation(o.domain_classifier, domain_input) >>)

\* DannSmoothModel.call_domain_classifier
SmoothCallDomain(o, fe, kw) ==
    LET grl_output == Out(o.flip_gradient, fe)
    IN  IF ~kw.given
        THEN HookResult(AssertWhichDc, NoneTerm, << >>)
        ELSE IF kw.which >= Len(o.domain_classifier)
        THEN HookResult(IndexError, NoneTerm,
                        << Invocation(o.flip_gradient, fe) >>)
        ELSE HookResult(None,
                        Out(o.domain_classifier[kw.which + 1], grl_output),
                        << Invocation(o.flip_gradient, fe),
                           Invocation(o.domain_classifier[kw.which + 1],
                                      grl_output) >>)

\* call_domain_classifier, as the class of o resolves it
call_domain_classifier(o, fe, task, kw) ==
    IF o.cls = "BasicModel"
    THEN HookResult(None, Out(o.domain_classifier, fe),
                    << Invocation(o.domain_classifier, fe) >>)
    ELSE IF o.cls = "SleepModel" THEN SleepCallDomain(o, fe, task)
    ELSE IF o.cls = "DannSmoothModel" THEN SmoothCallDomain(o, fe, kw)
    ELSE DannCallDomain(o, fe)

Hook(name, args) == [hook |-> name, args |-> args]

\* What the classifiers are given of the feature extractor's result: fe in
\* ModelBase.call, fe[0] in RnnModelBase.call
Pick(fe, first) == IF first THEN fe[1] ELSE fe

\* The three hooks in order; a hook that raises ends the call
CallBody(o, inputs, kw, first) ==
    LET f == call_feature_extractor(o, inputs, kw)
        h1 == << Hook("call_feature_extractor", <<inputs>>) >>
    IN  IF f.raised # None
        THEN [called |-> TRUE, raised |-> f.raised, hooks |-> h1,
              layers |-> f.layers, fe |-> << >>, ret |-> << >>]
        ELSE
    LET t == call_task_classifier(o, Pick(f.out, first))
        h2 == Append(h1, Hook("call_task_classifier", <<Pick(f.out, first)>>))
        d == call_domain_classifier(o, Pick(f.out, first), t.out, kw)
        h3 == Append(h2, Hook("call_domain_classifier",
                              <<Pick(f.out, first), t.out>>))
    IN  IF d.raised # None
        THEN [called |-> TRUE, raised |-> d.raised, hooks |-> h3,
              layers |-> f.layers \o t.layers \o d.layers,
              fe |-> <<f.out>>, ret |-> << >>]
        ELSE [called |-> TRUE, raised |-> None, hooks |-> h3,
              layers |-> f.layers \o t.layers \o d.layers,
              fe |-> <<f.out>>, ret |-> <<t.out, d.out, f.out>>]

\* ModelBase.call returning (domain, task, fe)
ModelBase_call_Swapped(o, inputs, kw) ==
    LET r == CallBody(o, inputs, kw, FALSE)
    IN  IF r.raised # None THEN r
        ELSE [r EXCEPT !.ret = <<r.ret[2], r.ret[1], r.ret[3]>>]

\* ModelBase.call
ModelBase_call(o, inputs, kw) == CallBody(o, inputs, kw, FALSE)

\* RnnModelBase.call: the classifiers get fe[0]
RnnModelBase_call(o, inputs, kw) == CallBody(o, inputs, kw, TRUE)

\* ModelBase.set_learning_phase
set_learning_phase(phase, training) ==
    IF training = "True" THEN 1
    ELSE IF training = "False" THEN 0
    ELSE phase

\* model(inputs, training=..., which_fe=... / which_dc=...)
Call(inputs, training, kw) ==
    /\ net.built
    /\ kw.given => net.cls \in {"HeterogeneousDannModel", "DannSmoothModel"}
    /\ learning_phase' = set_learning_phase(learning_phase, training)
    /\ run' = IF IsRnn(net.cls) THEN RnnModelBase_call(net, inputs, kw)
                                ELSE ModelBase_call(net, inputs, kw)
    /\ UNCHANGED <<net, notNet>>

\* The registry as the import of models.py leaves it
ImportedRegistry ==
    [i \in 1..NumNames |-> [key |-> NameList[i], value |-> ConstructorList[i]]]

NextNet ==
    \/ \E cls \in Classes, args \in ArgLists, model_name \in ModelNames,
          total_steps \in StepCounts, num \in 0..MaxComponents :
          Construct(cls, args, model_name, 0, total_steps, num)
    \/ \E inputs \in Inputs, training \in TrainingValues, kw \in Kwargs :
          Call(inputs, training, kw)

--------------------------------------------------------------------------
(* Python str operations, on TLA+ strings read with SubSeq *)

Min(a, b) == IF a < b THEN a ELSE b

\* s[i-1] as a one-character string
CharAt(s, i) == SubSeq(s, i, i)

\* The characters str.strip() removes
Whitespace == {" ", "\t", "\n", "\r"}

RECURSIVE LStrip(_)
LStrip(s) ==
    IF Len(s) > 0 /\ CharAt(s, 1) \in Whitespace
    THEN LStrip(SubSeq(s, 2, Len(s))) ELSE s

RECURSIVE RStrip(_)
RStrip(s) ==
    IF Len(s) > 0 /\ CharAt(s, Len(s)) \in Whitespace
    THEN RStrip(SubSeq(s, 1, Len(s) - 1)) ELSE s

\* s.strip()
Strip(s) == RStrip(LStrip(s))

\* The first position >= from at which s holds a character of set cs, or 0
RECURSIVE FindAny(_, _, _)
FindAny(s, cs, from) ==
    IF from > Len(s) THEN 0
    ELSE IF CharAt(s, from) \in cs THEN from
    ELSE FindAny(s, cs, from + 1)

\* s.split(sep) for a one-character sep whose first occurrence is at p (0:
\* none)
RECURSIVE SplitAt(_, _, _)
SplitAt(s, sep, p) ==
    IF p = 0 THEN <<s>>
    ELSE <<SubSeq(s, 1, p - 1)>>
           \o SplitAt(SubSeq(s, p + 1, Len(s)), sep,
                      FindAny(SubSeq(s, p + 1, Len(s)), {sep}, 1))

\* s.split(sep) for a one-character sep
Split(s, sep) == SplitAt(s, sep, FindAny(s, {sep}, 1))

\* old.join of new between and around every character: s.replace("", new)
RECURSIVE Interleave(_, _)
Interleave(s, new) ==
    IF Len(s) = 0 THEN new
    ELSE new \o CharAt(s, 1) \o Interleave(SubSeq(s, 2, Len(s)), new)

\* s.replace(old, new): every occurrence, left to right, not overlapping
RECURSIVE Replace(_, _, _)
Replace(s, old, new) ==
    IF Len(old) = 0 THEN Interleave(s, new)
    ELSE IF Len(s) < Len(old) THEN s
    ELSE IF SubSeq(s, 1, Len(old)) = old
    THEN new \o Replace(SubSeq(s, Len(old) + 1, Len(s)), old, new)
    ELSE CharAt(s, 1) \o Replace(SubSeq(s, 2, Len(s)), old, new)

Digits == {"0", "1", "2", "3", "4", "5", "6", "7", "8", "9"}

DigitValue(c) ==
    CASE c = "0" -> 0 [] c = "1" -> 1 [] c = "2" -> 2 [] c = "3" -> 3
      [] c = "4" -> 4 [] c = "5" -> 5 [] c = "6" -> 6 [] c = "7" -> 7
      [] c = "8" -> 8 [] c = "9" -> 9

AllDigits(s) == \A i \in 1..Len(s) : CharAt(s, i) \in Digits

\* The number a string of digits writes
RECURSIVE DigitsValue(_)
DigitsValue(s) ==
    IF Len(s) = 0 THEN 0
    ELSE 10 * DigitsValue(SubSeq(s, 1, Len(s) - 1)) + DigitValue(CharAt(s, Len(s)))

\* A leading sign taken off: [neg, body]
Unsigned(s) ==
    IF Len(s) > 0 /\ CharAt(s, 1) \in {"+", "-"}
    THEN [neg |-> CharAt(s, 1) = "-", body |-> SubSeq(s, 2, Len(s))]
    ELSE [neg |-> FALSE, body |-> s]

\* int(s): surrounding whitespace, an optional sign, decimal digits; anything
\* else is a ValueError.  (Digit-group underscores are not modelled; no input
\* of the model holds one.)
IntOf(neg, body) ==
    IF Len(body) > 0 /\ AllDigits(body)
    THEN [ok |-> TRUE,
          value |-> IF neg THEN -DigitsValue(body) ELSE DigitsValue(body)]
    ELSE [ok |-> FALSE, value |-> 0]

IntOfUnsigned(u) == IntOf(u.neg, u.body)

ParseInt(s) == IntOfUnsigned(Unsigned(Strip(s)))

\* m / 10^e with the trailing zeros of the fraction dropped
RECURSIVE Decimal(_, _)
Decimal(m, e) ==
    IF e > 0 /\ m % 10 = 0 THEN Decimal(m \div 10, e - 1)
    ELSE [m |-> m, e |-> e]

\* -d or d
Signed(neg, d) == [m |-> IF neg THEN -d.m ELSE d.m, e |-> d.e]

\* float(s): surrounding whitespace, an optional sign, digits with at most
\* one point and at least one digit; the value is kept as the decimal
\* m / 10^e it writes.  (Exponents, inf, nan and digit-group underscores are
\* not modelled; no input of the model holds one.)
FloatOf(neg, int_part, frac_part) ==
    IF /\ AllDigits(int_part)
       /\ AllDigits(frac_part)
       /\ Len(int_part) + Len(frac_part) > 0
    THEN [ok |-> TRUE,
          value |-> Signed(neg, Decimal(DigitsValue(int_part \o frac_part),
                                        Len(frac_part)))]
    ELSE [ok |-> FALSE, value |-> [m |-> 0, e |-> 0]]

\* The digits before and after the point at p (0: no point)
FloatAtPoint(neg, body, p) ==
    IF p = 0 THEN FloatOf(neg, body, "")
    ELSE FloatOf(neg, SubSeq(body, 1, p - 1), SubSeq(body, p + 1, Len(body)))

FloatOfUnsigned(u) == FloatAtPoint(u.neg, u.body, FindAny(u.body, {"."}, 1))

ParseFloat(s) == FloatOfUnsigned(Unsigned(Strip(s)))

--------------------------------------------------------------------------
(* analysis.py: beginning_match, smart_split, parse_file *)

\* beginning_match(match, line): line[:len(match)] == match
beginning_match(match, line) ==
    SubSeq(line, 1, Min(Len(match), Len(line))) = match

\* The match of
\*   ^([^/]+/[^-]*-[^-]*-[^-]*-[^-]*-[^-,]*),(.*)$
\* on line.  Every piece is a run that cannot hold the character ending it,
\* so the match, if any, is the one the first '/', the next four '-' and the
\* first ',' or '-' after them give: slash, d1..d4 and comma are their
\* positions.
\* The first character of cs after position p, where p = 0 says that the
\* match has already failed
NextOf(line, cs, p) == IF p > 0 THEN FindAny(line, cs, p + 1) ELSE 0

\* [^/]+/ : the first '/', with at least one character before it
FirstSlash(p) == IF p >= 2 THEN p ELSE 0

MatchEnd(line, slash, d1, stop) ==
    [matched |-> stop > 0 /\ CharAt(line, stop) = ",",
     slash |-> slash, d1 |-> d1, comma |-> stop]

MatchFromDash(line, slash, d1) ==
    MatchEnd(line, slash, d1,
             NextOf(line, {"-", ","},
                    NextOf(line, {"-"},
                           NextOf(line, {"-"}, NextOf(line, {"-"}, d1)))))

MatchFromSlash(line, slash) ==
    MatchFromDash(line, slash, NextOf(line, {"-"}, slash))

LogDirMatch(line) == MatchFromSlash(line, FirstSlash(FindAny(line, {"/"}, 1)))

\* The branch of smart_split for a line the pattern matched: filename is
\* group 1, rest group 2, source the group of the second pattern
\*   ^[^/]+/([^-]*)-[^-]*-[^-]*-[^-]*-[^-,]*$
\* on filename, which matches wherever the first did
SplitMatched(filename, source, rest) ==
    <<filename, source>> \o Tail(Split(Replace(rest, source, "source"), ","))

SplitOnMatch(line, m) ==
    IF ~m.matched THEN Split(line, ",")
    ELSE SplitMatched(SubSeq(line, 1, m.comma - 1),
                      SubSeq(line, m.slash + 1, m.d1 - 1),
                      SubSeq(line, m.comma + 1, Len(line)))

\* smart_split(line)
smart_split(line) == SplitOnMatch(line, LogDirMatch(line))

valid_header == "Log Dir,Source,Target,Model,Method,Best Step,Accuracy at Step"
traintest_header == "Log Dir,Source,Target,Model,Method,Train A,Test A,Train B,Test B,Target Train A,Target Test A,Target Train B,Target Test B"
averages_header == "Dataset,Avg,Std"
VirtualDevices == "Virtual devices must be set at program startup"
ErrorOccured == "Error occured -- exiting"
NoData == "No data."

\* The state of parse_file's loop: the three flags, the three lists, and how
\* the function has ended, if it has
ParseStart ==
    [status |-> "running", exception |-> None, exit_status |-> 0,
     in_validation |-> FALSE, in_traintest |-> FALSE, in_averages |-> FALSE,
     validation |-> << >>, traintest |-> << >>, averages |-> << >>]

\* The function has ended without tables: return None, exit(1), an exception
Ended(st, status, exception) ==
    [st EXCEPT !.status = status, !.exception = exception,
               !.validation = << >>, !.traintest = << >>, !.averages = << >>]

\* The message is printed and the loop goes on
exit_NotCalled(st, code) == st

\* exit(code): the process terminates with that exit status
exit(st, code) == [Ended(st, "exit", None) EXCEPT !.exit_status = code]

\* list.insert(0, row)
AddRow_Front(table, row) == <<row>> \o table

\* list.append(row)
AddRow(table, row) == Append(table, row)

\* A row being built, or the exception that ended building it
Raised(exception) == [exception |-> exception, row |-> << >>]
Built(row) == [exception |-> None, row |-> row]

\* The elements of a followed by those of b, evaluated in that order: the
\* first exception ends the row
ThenRow(a, b) ==
    IF a.exception # None THEN a
    ELSE IF b.exception # None THEN b
    ELSE Built(a.row \o b.row)

\* The tuple elements values[0], ..., values[n-1]
Fields(values, n) ==
    IF Len(values) < n THEN Raised("IndexError") ELSE Built(SubSeq(values, 1, n))

\* The tuple element int(x) / float(x), x parsed as r
Number(r) == IF r.ok THEN Built(<<r.value>>) ELSE Raised("ValueError")

\* The tuple elements float(values[k]) for k = from .. upto, left to right
RECURSIVE Floats(_, _, _)
Floats(values, from, upto) ==
    IF from > upto THEN Built(<< >>)
    ELSE IF Len(values) < from + 1 THEN Raised("IndexError")
    ELSE ThenRow(Number(ParseFloat(values[from + 1])),
                 Floats(values, from + 1, upto))

\* (values[0], ..., values[4], int(values[5]), float(values[6]))
ValidationRow(values) ==
    ThenRow(Fields(values, 5),
            ThenRow(IF Len(values) < 6 THEN Raised("IndexError")
                    ELSE Number(ParseInt(values[6])),
                    Floats(values, 6, 6)))

\* (values[0], ..., values[4], float(values[5]), ..., float(values[12]))
TraintestRow(values) == ThenRow(Fields(values, 5), Floats(values, 5, 12))

\* (values[0], float(values[1]), float(values[2]))
AveragesRow(values) == ThenRow(Fields(values, 1), Floats(values, 1, 2))

\* table.append(row), unless building the row raised
Store(st, table, r) ==
    IF r.exception # None THEN Ended(st, "raised", r.exception)
    ELSE [st EXCEPT ![table] = AddRow(@, r.row)]

\* The validation branch: the check of values[5] against "None" comes first
StoreValidation(st, values) ==
    IF Len(values) < 6 THEN Ended(st, "raised", "IndexError")
    ELSE IF values[6] = "None" THEN Ended(st, "None", None)
    ELSE Store(st, "validation", ValidationRow(values))

\* The branch of the loop for a line that is neither marker, header nor
\* empty, split into values
DataValues(st, values) ==
    IF values[1] = NoData THEN Ended(st, "None", None)
    ELSE IF st.in_validation THEN StoreValidation(st, values)
    ELSE IF st.in_traintest THEN Store(st, "traintest", TraintestRow(values))
    ELSE IF st.in_averages THEN Store(st, "averages", AveragesRow(values))
    ELSE st

DataLine(st, line) == DataValues(st, smart_split(line))

\* The body with an else branch that leaves the flags as they are
ParseStripped_EmptyLineKeepsSection(st, line) ==
    IF line = VirtualDevices THEN st
    ELSE IF line = ErrorOccured THEN exit(st, 1)
    ELSE IF beginning_match(valid_header, line)
    THEN [st EXCEPT !.in_validation = TRUE, !.in_traintest = FALSE,
                    !.in_averages = FALSE]
    ELSE IF beginning_match(traintest_header, line)
    THEN [st EXCEPT !.in_validation = FALSE, !.in_traintest = TRUE,
                    !.in_averages = FALSE]
    ELSE IF beginning_match(averages_header, line)
    THEN [st EXCEPT !.in_validation = FALSE, !.in_traintest = FALSE,
                    !.in_averages = TRUE]
    ELSE IF Len(line) > 0 THEN DataLine(st, line)
    ELSE st

\* The body of `for line in f` after line = line.strip()
ParseStripped(st, line) ==
    IF line = VirtualDevices THEN st
    ELSE IF line = ErrorOccured THEN exit(st, 1)
    ELSE IF beginning_match(valid_header, line)
    THEN [st EXCEPT !.in_validation = TRUE, !.in_traintest = FALSE,
                    !.in_averages = FALSE]
    ELSE IF beginning_match(traintest_header, line)
    THEN [st EXCEPT !.in_validation = FALSE, !.in_traintest = TRUE,
                    !.in_averages = FALSE]
    ELSE IF beginning_match(averages_header, line)
    THEN [st EXCEPT !.in_validation = FALSE, !.in_traintest = FALSE,
                    !.in_averages = TRUE]
    ELSE IF Len(line) > 0 THEN DataLine(st, line)
    ELSE [st EXCEPT !.in_validation = FALSE, !.in_traintest = FALSE,
                    !.in_averages = FALSE]

\* One iteration of `for line in f`
ParseLine(st, raw) == ParseStripped(st, Strip(raw))

\* The loop over the lines from line i on; a return, exit or exception ends it
RECURSIVE ParseLoop(_, _, _)
ParseLoop(st, lines, i) ==
    IF i > Len(lines) \/ st.status # "running" THEN st
    ELSE ParseLoop(ParseLine(st, lines[i]), lines, i + 1)

\* parse_file(filename), on the lines of the file: the three tables, None,
\* exit(1) or an exception
Returned(st) ==
    IF st.status = "running" THEN [st EXCEPT !.status = "tables"] ELSE st

parse_file(lines) == Returned(ParseLoop(ParseStart, lines, 1))

MaxLines == 4

\* Lines an evaluation log can hold (each is written with its newline)
LineBodies ==
    { valid_header, traintest_header, averages_header, "", "  ",
      "logs/s1-t2-fcn-dann-0,s1,t2,fcn,dann,100,0.5",
      "logs/s1-t2-fcn-dann-1,s1,t2,fcn,dann,250,0.75",
      "logs/s1-t2-fcn-dann-2,s1,t2,fcn,dann,None,None",
      "logs/-t2-fcn-dann-0,,t2,fcn,dann,None,None",
      "logs/s1-t2-fcn-dann-0,s1,t2,fcn,dann,0.9,0.8,0.9,0.7,0.9,0.8,0.9,0.7",
      "Test B,0.7,0.05",
      VirtualDevices, ErrorOccured, NoData }

NotParsed == [ParseStart EXCEPT !.status = "not parsed"]

\* The evaluation writes one more line to the log
WriteLine(body) ==
    /\ Len(file) < MaxLines
    /\ file' = Append(file, body \o "\n")
    /\ parsed' = NotParsed
    /\ UNCHANGED notParse

\* parse_file(filename) on the log as it stands
ParseFile ==
    /\ parsed' = parse_file(file)
    /\ UNCHANGED <<file, notParse>>

NextParse ==
    \/ \E body \in LineBodies : WriteLine(body)
    \/ ParseFile

\* No call of parse_file in progress
NoReader == [phase |-> "closed", pos |-> 0, st |-> NotParsed]

\* The call after the line at pos has been handled, leaving the loop state st
ReadNext(pos, st) ==
    [phase |-> IF st.status = "running" THEN "open" ELSE "done",
     pos |-> pos, st |-> st]

\* parse_file(filename) up to `with open(filename) as f`: flags False, lists
\* empty, no line read
OpenFile ==
    /\ reader' = [phase |-> "open", pos |-> 0, st |-> ParseStart]
    /\ UNCHANGED notRead

\* One iteration of `for line in f`: the next line is read and handled; a
\* return, exit or exception inside the loop ends the call
ReadLine ==
    /\ reader.phase = "open"
    /\ reader.pos < Len(file)
    /\ reader' = ReadNext(reader.pos + 1, ParseLine(reader.st, file[reader.pos + 1]))
    /\ UNCHANGED notRead

\* The loop finds no further line: the three lists are returned as tables
EndOfFile ==
    /\ reader.phase = "open"
    /\ reader.pos = Len(file)
    /\ reader' = [reader EXCEPT !.phase = "done", !.st = Returned(@)]
    /\ UNCHANGED notRead

NextRead ==
    \/ \E body \in LineBodies : WriteLine(body)
    \/ OpenFile
    \/ ReadLine
    \/ EndOfFile

--------------------------------------------------------------------------
(* smart_split on the lines of an evaluation log.  A result line starts with
   the log directory, whose name is made of the run's source, target, model,
   method and debug number, followed by the same source, target, model and
   method as fields of their own and by the results *)

\* Runs the evaluation reports on
Dirs == {"logs", "kamiak-logs"}
SourceNames == {"s1", "s1,s2", "", "n3"}
TargetNames == {"t2", "s10", "t2,t3"}
ResultFields == {"100,0.5", "None,None", "0.9,0.8,0.9,0.7"}

\* Lines of a log that are not results of a run
OtherLines ==
    { valid_header, averages_header, VirtualDevices, NoData,
      "Test B,0.7,0.05", "Train A,0.9,0.01", "logs/s1-t2,s1,t2", "s1,t2,fcn" }

NoLine == [written |-> FALSE, form |-> FALSE, text |-> "", name |-> "",
           source |-> "", remaining |-> ""]

NotSplit == [called |-> FALSE, result |-> << >>]

\* The result line of the run of fcn with dann on source and target
ResultLine(name, source, remaining) ==
    [written |-> TRUE, form |-> TRUE,
     text |-> name \o "," \o source \o "," \o remaining,
     name |-> name, source |-> source, remaining |-> remaining]

\* A result line is the next line parse_file hands to smart_split
WriteResult(dir, source, target, numbers) ==
    /\ splitLine' =
           ResultLine(dir \o "/" \o source \o "-" \o target \o "-fcn-dann-0",
                      source, target \o ",fcn,dann," \o numbers)
    /\ splitValues' = NotSplit
    /\ UNCHANGED notSplit

\* Another line is the next line parse_file hands to smart_split
WriteOther(text) ==
    /\ splitLine' = [NoLine EXCEPT !.written = TRUE, !.text = text]
    /\ splitValues' = NotSplit
    /\ UNCHANGED notSplit

\* values = smart_split(line)
SmartSplit ==
    /\ splitLine.written
    /\ splitValues' = [called |-> TRUE, result |-> smart_split(splitLine.text)]
    /\ UNCHANGED <<splitLine, notSplit>>

NextSplit ==
    \/ \E dir \in Dirs, source \in SourceNames, target \in TargetNames,
          numbers \in ResultFields : WriteResult(dir, source, target, numbers)
    \/ \E text \in OtherLines : WriteOther(text)
    \/ SmartSplit

--------------------------------------------------------------------------
(* plot_multisource up to its aggregation step, on what all_stats returns.
   Accuracies are whole percents and the statistics are exact fractions: the
   float32 rounding of numpy is left out *)

MaxFiles == 3

\* Names of result files: method-source-target, the source naming the number
\* of source domains as n<number> and being empty for the upper bound
MethodNames == {"dann", "upper"}
MultiSources == {"", "har_n1_1", "har_n2_1,2", "har_n2_1,3"}
MultiTargets == {"ucihar_3", "t2"}
Accuracies == {60, 80}

\* The characters of the names in the order of their code points
CodePoints == ",-0123456789_abcdefghijklmnopqrstuvwxyz"

Ord(c) == CHOOSE i \in 1..Len(CodePoints) : CharAt(CodePoints, i) = c

\* a < b for str
RECURSIVE StrLess(_, _)
StrLess(a, b) ==
    IF Len(b) = 0 THEN FALSE
    ELSE IF Len(a) = 0 THEN TRUE
    ELSE IF CharAt(a, 1) # CharAt(b, 1)
    THEN Ord(CharAt(a, 1)) < Ord(CharAt(b, 1))
    ELSE StrLess(SubSeq(a, 2, Len(a)), SubSeq(b, 2, Len(b)))

\* The end of the digits that start at position p
RECURSIVE DigitsEnd(_, _)
DigitsEnd(s, p) ==
    IF p <= Len(s) /\ CharAt(s, p) \in Digits THEN DigitsEnd(s, p + 1)
    ELSE p - 1

\* re.search(r"n([0-9]+)", source): group 1 of the leftmost match from
\* position from on, "" for no match (a match is never empty)
RECURSIVE SearchN(_, _)
SearchN(source, from) ==
    IF from >= Len(source) THEN ""
    ELSE IF CharAt(source, from) = "n" /\ CharAt(source, from + 1) \in Digits
    THEN SubSeq(source, from + 1, DigitsEnd(source, from + 1))
    ELSE SearchN(source, from + 1)

\* A Python int or str holding a number: 0 and "0" are different values
IntValue(i) == [type |-> "int", digits |-> ToString(i)]
StrValue(s) == [type |-> "str", digits |-> s]

\* num_source of parse_name_real
NumSource(source) ==
    IF source = "" THEN IntValue(0) ELSE StrValue(SearchN(source, 1))

\* parse_name_real(name), and whether its assertion failed
ParsedName(values) ==
    [raised |-> IF values[2] # "" /\ SearchN(values[2], 1) = ""
                THEN "AssertionError" ELSE None,
     method |-> values[1], source |-> values[2], target |-> values[3],
     n |-> NumSource(values[2])]

parse_name_real(name) == ParsedName(Split(name, "-"))

\* make_replacements(target, replacements) of pretty_source_target_names
PrettyTarget(target) ==
    Replace(Replace(Replace(Replace(target, "ucihar_", "HAR "),
                            "uwave_", "uWave "),
                    "utdata_wrist", "Wrist"),
            "utdata_pocket", "Pocket")

\* One element of all_stats' list: the name, its parameters and the Avg and
\* Std of the rows Test A and Test B of its averages table
Result(name, test_a, test_b) ==
    [name |-> name, parameters |-> parse_name_real(name),
     averages |-> [test_a |-> [Avg |-> test_a, Std |-> 1],
                   test_b |-> [Avg |-> test_b, Std |-> 5]]]

\* results.append(...) followed by results.sort(key=name), the list having
\* been sorted before
RECURSIVE InsertSorted(_, _)
InsertSorted(list, result) ==
    IF Len(list) = 0 THEN <<result>>
    ELSE IF StrLess(result.name, Head(list).name) THEN <<result>> \o list
    ELSE <<Head(list)>> \o InsertSorted(Tail(list), result)

\* A number: num/den in lowest terms, or its square root
RECURSIVE GCD(_, _)
GCD(a, b) == IF b = 0 THEN a ELSE GCD(b, a % b)

Fraction(num, den) ==
    [root |-> FALSE, num |-> num \div GCD(num, den), den |-> den \div GCD(num, den)]

Sqrt(x) == IF x.num = 0 THEN x ELSE [x EXCEPT !.root = TRUE]

\* One row (n, mean, std)
Row(n, mean, std) == [n |-> n, mean |-> mean, std |-> std]

\* d[k] once `if k not in d: d[k] = {}` (or []) has run
GetOrEmpty(d, k) == IF DictHas(d, k) THEN DictGet(d, k) ELSE << >>

\* ms_results[dataset_name][method][n].append(row), the three levels made
\* where they are missing
AppendAtN(n_values, n, row) ==
    DictSet(n_values, n, Append(GetOrEmpty(n_values, n), row))

AppendAtMethod(values, method, n, row) ==
    DictSet(values, method, AppendAtN(GetOrEmpty(values, method), n, row))

AppendAtDataset(ms, dataset_name, method, n, row) ==
    DictSet(ms, dataset_name,
            AppendAtMethod(GetOrEmpty(ms, dataset_name), method, n, row))

\* The mean and std plotted for a result: those of Test B, of Test A for the
\* upper bound
Plotted(method, averages) ==
    IF method = "upper" THEN averages.test_a ELSE averages.test_b

RowOfResult(n, stats) ==
    Row(n, Fraction(stats.Avg, 1), Fraction(stats.Std, 1))

\* The body of `for result in results`
GroupResult(ms, params, averages) ==
    AppendAtDataset(ms, PrettyTarget(params.target), params.method, params.n,
                    RowOfResult(params.n, Plotted(params.method, averages)))

\* for result in results, from result i on
RECURSIVE GroupLoop(_, _, _)
GroupLoop(ms, list, i) ==
    IF i > Len(list) THEN ms
    ELSE GroupLoop(GroupResult(ms, list[i].parameters, list[i].averages),
                   list, i + 1)

\* The sum of the accuracies (the means) of the rows from row i on
RECURSIVE SumMeans(_, _)
SumMeans(ms_values, i) ==
    IF i > Len(ms_values) THEN 0
    ELSE ms_values[i].mean.num + SumMeans(ms_values, i + 1)

\* The sum of the squares of count * x - total over the accuracies x of the
\* rows from row i on
RECURSIVE SumSquares(_, _, _, _)
SumSquares(ms_values, i, count, total) ==
    IF i > Len(ms_values) THEN 0
    ELSE (count * ms_values[i].mean.num - total)
             * (count * ms_values[i].mean.num - total)
           + SumSquares(ms_values, i + 1, count, total)

\* ms_values[:, 1].mean()
Mean(ms_values) == Fraction(SumMeans(ms_values, 1), Len(ms_values))

\* The root of sum((x - total/count)^2) / (count - ddof)
StdOfTotal(ms_values, count, total, ddof) ==
    Sqrt(Fraction(SumSquares(ms_values, 1, count, total),
                  count * count * (count - ddof)))

\* ms_values[:, 1].std(ddof=ddof)
Std(ms_values, ddof) ==
    StdOfTotal(ms_values, Len(ms_values), SumMeans(ms_values, 1), ddof)

\* int(ms_values[0, 0]) of the float32 array: the n of a str is converted
AsInt(n) == IntValue(DigitsValue(n.digits))

\* (int(ms_values[0, 0]), ms_values[:, 1].mean(), ms_values[:, 1].std(ddof=0))
MeanStdRow(ms_values) ==
    Row(AsInt(ms_values[1].n), Mean(ms_values), Std(ms_values, 0))

\* for n, ms_values in n_values.items(), from item i on: the new_values it
\* ends with, or the assertion that failed
RECURSIVE NLoop(_, _, _)
NLoop(n_values, i, new_values) ==
    IF i > Len(n_values) THEN Built(new_values)
    ELSE IF Len(n_values[i].value) > 1
    THEN NLoop(n_values, i + 1,
               Append(new_values, MeanStdRow(n_values[i].value)))
    ELSE IF new_values # << >> THEN Raised("AssertionError")
    ELSE NLoop(n_values, i + 1, n_values[i].value)

\* a < b for the sort keys
KeyLess(a, b) ==
    IF a.type = "int" THEN DigitsValue(a.digits) < DigitsValue(b.digits)
    ELSE StrLess(a.digits, b.digits)

RECURSIVE InsertOnN(_, _)
InsertOnN(sorted, row) ==
    IF Len(sorted) = 0 THEN <<row>>
    ELSE IF KeyLess(row.n, Head(sorted).n) THEN <<row>> \o sorted
    ELSE <<Head(sorted)>> \o InsertOnN(Tail(sorted), row)

RECURSIVE SortLoop(_, _, _)
SortLoop(new_values, i, sorted) ==
    IF i > Len(new_values) THEN sorted
    ELSE SortLoop(new_values, i + 1, InsertOnN(sorted, new_values[i]))

\* new_values.sort(key=lambda x: x[0]): stable, and a TypeError when an int
\* is compared with a str
SortOnN(new_values) ==
    IF \E i, j \in 1..Len(new_values) :
           new_values[i].n.type # new_values[j].n.type
    THEN Raised("TypeError")
    ELSE Built(SortLoop(new_values, 1, << >>))

\* The body of `for method, n_values in values.items()`, given how the loop
\* over n ended
SortNew(looped) ==
    IF looped.exception # None THEN looped ELSE SortOnN(looped.row)

NewValues(n_values) == SortNew(NLoop(n_values, 1, << >>))

\* The dict with d[key] = done.row, unless done is an exception
Assigned(d, key, done) ==
    IF done.exception # None THEN done ELSE Built(DictSet(d, key, done.row))

\* for method, n_values in values.items(), from item j on
RECURSIVE MethodLoop(_, _)
MethodNext(j, done) ==
    IF done.exception # None THEN done ELSE MethodLoop(done.row, j + 1)

MethodLoop(values, j) ==
    IF j > Len(values) THEN Built(values)
    ELSE MethodNext(j, Assigned(values, values[j].key,
                                NewValues(values[j].value)))

\* for dataset, values in ms_results.items(), from item i on
RECURSIVE DatasetLoop(_, _)
DatasetNext(i, done) ==
    IF done.exception # None THEN done ELSE DatasetLoop(done.row, i + 1)

DatasetLoop(ms, i) ==
    IF i > Len(ms) THEN Built(ms)
    ELSE DatasetNext(i, Assigned(ms, ms[i].key, MethodLoop(ms[i].value, 1)))

NotPlotted == [called |-> FALSE, exception |-> None, table |-> << >>]

\* plot_multisource as far as the aggregation has got
Aggregated(done) ==
    [called |-> TRUE, exception |-> done.exception, table |-> done.row]

\* A result file is found in the directory: all_stats returns its result
\* with the others, sorted by name
AddFile(name, test_a, test_b) ==
    /\ Len(results) < MaxFiles
    /\ \A i \in 1..Len(results) : results[i].name # name
    /\ results' = InsertSorted(results, Result(name, test_a, test_b))
    /\ ms_results' = NotPlotted
    /\ UNCHANGED notPlot

\* plot_multisource(dataset) up to `# Make numpy array`
PlotMultisource ==
    /\ ms_results' = Aggregated(DatasetLoop(GroupLoop(<< >>, results, 1), 1))
    /\ UNCHANGED <<results, notPlot>>

NextPlot ==
    \/ \E method \in MethodNames, source \in MultiSources,
          target \in MultiTargets, test_a \in Accuracies,
          test_b \in Accuracies :
              AddFile(method \o "-" \o source \o "-" \o target, test_a, test_b)
    \/ PlotMultisource

--------------------------------------------------------------------------
(* The specifications: each part of the program from its initial state *)

\* models.py as its first statements leave it: an empty registry (line 11),
\* nothing differentiated, no model object, Keras in test phase
Init ==
    /\ models = << >>
    /\ decorators = {}
    /\ regOrder = << >>
    /\ regLatest = [n \in Names |-> None]
    /\ last = NoOperation
    /\ tape = NoTape
    /\ grads = NoGrads
    /\ net = NoObject
    /\ run = NoRun
    /\ learning_phase = 0
    /\ file = << >>
    /\ parsed = NotParsed
    /\ reader = NoReader
    /\ splitLine = NoLine
    /\ splitValues = NotSplit
    /\ results = << >>
    /\ ms_results = NotPlotted

\* models.py once imported: every @register_model of the file applied
InitImported ==
    /\ models = ImportedRegistry
    /\ decorators = Names
    /\ regOrder = [i \in 1..NumNames |-> NameList[i]]
    /\ regLatest = [n \in Names |-> DictGet(ImportedRegistry, n)]
    /\ last = NoOperation
    /\ tape = NoTape
    /\ grads = NoGrads
    /\ net = NoObject
    /\ run = NoRun
    /\ learning_phase = 0
    /\ file = << >>
    /\ parsed = NotParsed
    /\ reader = NoReader
    /\ splitLine = NoLine
    /\ splitValues = NotSplit
    /\ results = << >>
    /\ ms_results = NotPlotted

SpecRegistry == Init /\ [][NextRegistry]_vars

SpecGradient == Init /\ [][NextGradient]_vars

SpecNet == InitImported /\ [][NextNet]_vars

SpecParse == Init /\ [][NextParse]_vars

SpecRead == Init /\ [][NextRead]_vars

SpecSplit == Init /\ [][NextSplit]_vars

SpecPlot == Init /\ [][NextPlot]_vars

--------------------------------------------------------------------------
(* Claims about the gradient reversal function, checked under SpecGradient *)

\* C3: flip_gradient(x, grl_lambda) returns x unchanged on the forward pass,
\* and on the backward pass maps every upstream gradient dy to
\* -dy * grl_lambda (the float32 product, elementwise) for x and to 0 for
\* grl_lambda.
C3_FlipGradient ==
    /\ tape.called => tape.y = tape.x
    /\ grads.called =>
          /\ DOMAIN grads.dx = DOMAIN tape.x
          /\ \A i \in DOMAIN grads.dx : grads.dx[i] = Mul32(-grads.dy[i], tape.arg)
          /\ grads.dlambda = 0

\* C3 witness: a backward pass with a non-zero upstream gradient and a
\* scale other than 0 and 1, on a tensor of more than one element.
C3_Witness ==
    /\ tape.called
    /\ grads.called
    /\ Len(tape.x) = MaxTensorLen
    /\ tape.arg = 2
    /\ grads.dy[1] = -3
    /\ grads.dx[1] = 6

--------------------------------------------------------------------------
(* Claims about the registry, checked under SpecRegistry *)

InRegistry(name) == \E i \in 1..Len(regOrder) : regOrder[i] = name

\* C1: for every name present in the registry, get_model(name, args...)
\* invokes exactly the constructor registered under that name, with exactly
\* the given arguments, returns that constructor's result, invokes no other
\* constructor and leaves the registry unchanged.
C1_GetModelCallsRegistered ==
    (last.op = "get_model" /\ InRegistry(last.name)) =>
        /\ last.raised = None
        /\ last.invoked = << [cls |-> regLatest[last.name], args |-> last.args] >>
        /\ last.ret = Apply(regLatest[last.name], last.args)
        /\ models = last.before

\* C1 witness: a successful lookup of a name that is not the first entry of a
\* registry holding two different constructors.
C1_Witness ==
    /\ last.op = "get_model"
    /\ InRegistry(last.name)
    /\ Len(models) >= 2
    /\ models[1].key # last.name
    /\ models[1].value # regLatest[last.name]
    /\ Len(last.invoked) = 1

\* C2: get_model(name, ...) with a name that is not in the registry fails
\* with the assertion 'Unknown model name', invokes no constructor and leaves
\* the registry unchanged.
C2_GetModelUnknownName ==
    (last.op = "get_model" /\ ~InRegistry(last.name)) =>
        /\ last.raised = AssertUnknown
        /\ last.invoked = << >>
        /\ last.ret = None
        /\ models = last.before

\* C2 witness: a failed lookup on a registry that is not empty.
C2_Witness ==
    /\ last.op = "get_model"
    /\ ~InRegistry(last.name)
    /\ Len(models) >= 1
    /\ last.raised = AssertUnknown

\* C7: register_model(name) with a name that is already in the registry
\* fails with the assertion 'duplicate model named', and the registry is
\* unchanged by the failed call.
C7_RegisterDuplicateFails ==
    (last.op = "register_model" /\ InRegistry(last.name)) =>
        /\ last.raised = AssertDuplicate
        /\ last.ret = None
        /\ models = last.before

\* C7 witness: a register_model call rejected as a duplicate.
C7_Witness ==
    /\ last.op = "register_model"
    /\ InRegistry(last.name)
    /\ last.raised = AssertDuplicate
    /\ Len(models) >= 2

\* C8: after any sequence of registrations, list_models() returns exactly
\* the names for which get_model succeeds, each once, in registration order.
C8_ListModelsIsRegistrationOrder ==
    /\ list_models(models) = regOrder
    /\ \A i, j \in 1..Len(list_models(models)) :
           list_models(models)[i] = list_models(models)[j] => i = j
    /\ \A n \in Names, a \in ArgLists :
           (\E i \in 1..Len(list_models(models)) : list_models(models)[i] = n)
             <=> get_model(models, n, a).raised = None
    /\ last.op = "list_models" => last.ret = regOrder

\* C8 witness: list_models() returned two or more names after the first
\* registered name had its constructor replaced.
C8_Witness ==
    /\ last.op = "list_models"
    /\ Len(last.ret) >= 2
    /\ Len(last.ret) < NumNames
    /\ regLatest[last.ret[1]] = ConstructorList[2]
    /\ regLatest[last.ret[2]] = ConstructorList[1]

--------------------------------------------------------------------------
(* Claims about the model classes, checked under SpecNet *)

\* The ways from tensor t back to tensor target, each as the set of layer
\* parts crossed on the way
RECURSIVE Routes(_, _)
Routes(t, target) ==
    IF t = target THEN {{}}
    ELSE UNION {{r \cup {t.op} : r \in Routes(t.args[k], target)} :
                   k \in 1..Len(t.args)}

\* Positions in the trace of layer invocations of the layers of one part
Ran(part) == {i \in 1..Len(run.layers) : run.layers[i].layer.part = part}

\* What call_feature_extractor returned, and the tensor of it that the
\* classifiers are meant to see
FeResult == run.fe[1]
FeOutput == IF IsRnn(net.cls) THEN FeResult[1] ELSE FeResult

\* C4: in every DANN-derived model, on every call, the feature-extractor
\* output reaches the domain classifier only through the gradient reversal
\* layer (the only other way in, SleepModel's task output, is behind
\* stop_gradient), while the task classifier receives the feature-extractor
\* output directly; in BasicModel the domain classifier receives the
\* feature-extractor output itself and no gradient reversal layer runs.
C4_DomainBehindGradientReversal ==
    run.called =>
        /\ \A i \in Ran("task_classifier") : run.layers[i].in = FeOutput
        /\ \A i \in Ran("domain_classifier") :
              IF IsDann(net.cls)
              THEN /\ \E r \in Routes(run.layers[i].in, FeOutput) :
                         "flip_gradient" \in r /\ "task_classifier" \notin r
                   /\ \A r \in Routes(run.layers[i].in, FeOutput) :
                         \/ "flip_gradient" \in r
                         \/ {"task_classifier", "stop_gradient"} \subseteq r
                   /\ \A j \in Ran("flip_gradient") :
                         /\ j < i
                         /\ run.layers[j].layer = net.flip_gradient
                         /\ run.layers[j].in = FeOutput
              ELSE /\ run.layers[i].in = FeOutput
                   /\ Ran("flip_gradient") = {}

\* C4 witness: a SleepModel call that reached its domain classifier.
C4_Witness ==
    /\ run.called
    /\ run.raised = None
    /\ net.cls = "SleepModel"
    /\ Ran("domain_classifier") # {}
    /\ Ran("flip_gradient") # {}
    /\ Ran("stop_gradient") # {}

\* C5: in one ModelBase.call the feature extractor is evaluated exactly
\* once, before the task classifier, which is evaluated before the domain
\* classifier; both classifier hooks are given that same feature-extractor
\* output, and the call returns (task output, domain output,
\* feature-extractor output) in that order.  A call that a hook's assertion
\* ends early keeps the order as far as it got.
C5_CallOrderAndResult ==
    (run.called /\ ~IsRnn(net.cls)) =>
        /\ Cardinality(Ran("feature_extractor")) <= 1
        /\ \A i \in Ran("feature_extractor"), j \in Ran("task_classifier") :
              i < j
        /\ \A j \in Ran("task_classifier"), k \in Ran("domain_classifier") :
              j < k
        /\ Ran("task_classifier") # {} => Ran("feature_extractor") # {}
        /\ run.raised = None =>
              /\ Cardinality(Ran("feature_extractor")) = 1
              /\ Cardinality(Ran("task_classifier")) = 1
              /\ Cardinality(Ran("domain_classifier")) = 1
              /\ [h \in 1..Len(run.hooks) |-> run.hooks[h].hook]
                    = <<"call_feature_extractor", "call_task_classifier",
                        "call_domain_classifier">>
              /\ LET f == run.layers[CHOOSE i \in Ran("feature_extractor") : TRUE]
                     t == run.layers[CHOOSE i \in Ran("task_classifier") : TRUE]
                     d == run.layers[CHOOSE i \in Ran("domain_classifier") : TRUE]
                 IN  /\ run.hooks[2].args = << Out(f.layer, f.in) >>
                     /\ run.hooks[3].args
                           = << Out(f.layer, f.in), Out(t.layer, t.in) >>
                     /\ run.ret = << Out(t.layer, t.in), Out(d.layer, d.in),
                                     Out(f.layer, f.in) >>

\* C5 witness: a HeterogeneousDannModel call through its second feature
\* extractor that returned.
C5_Witness ==
    /\ run.called
    /\ run.raised = None
    /\ net.cls = "HeterogeneousDannModel"
    /\ \E i \in Ran("feature_extractor") : run.layers[i].layer.copy = 1
    /\ Len(run.ret) = 3

\* C9 as claimed: HeterogeneousDannModel holds exactly
\* num_feature_extractors feature extractors and DannSmoothModel exactly
\* num_domain_classifiers domain classifiers, for every non-negative value of
\* the argument.
C9_AsClaimed ==
    /\ (net.built /\ net.cls = "HeterogeneousDannModel")
          => Len(net.feature_extractor) = net.num
    /\ (net.built /\ net.cls = "DannSmoothModel")
          => Len(net.domain_classifier) = net.num

\* The list is the original component followed by separate clones of it
OriginalThenClones(lst, part) ==
    /\ lst[1] = Component(lst[1].made_by, lst[1].args, part)
    /\ \A i \in 2..Len(lst) :
          /\ lst[i] # lst[1]
          /\ [lst[i] EXCEPT !.copy = 0] = lst[1]
          /\ \A j \in 2..Len(lst) : lst[i] = lst[j] => i = j

\* C9: after construction, HeterogeneousDannModel holds exactly
\* num_feature_extractors feature extractors and DannSmoothModel exactly
\* num_domain_classifiers domain classifiers for every value of the argument
\* from 1 up, and exactly one for the value 0; the first element is the
\* originally built component and every further element is a separate clone
\* of it.
C9_ComponentLists ==
    /\ (net.built /\ net.cls = "HeterogeneousDannModel") =>
          /\ Len(net.feature_extractor) = IF net.num >= 1 THEN net.num ELSE 1
          /\ OriginalThenClones(net.feature_extractor, "feature_extractor")
    /\ (net.built /\ net.cls = "DannSmoothModel") =>
          /\ Len(net.domain_classifier) = IF net.num >= 1 THEN net.num ELSE 1
          /\ OriginalThenClones(net.domain_classifier, "domain_classifier")

\* C9 witness: a DannSmoothModel built with the largest number of domain
\* classifiers.
C9_Witness ==
    /\ net.built
    /\ net.cls = "DannSmoothModel"
    /\ net.num = MaxComponents
    /\ Len(net.domain_classifier) = MaxComponents

\* C10: in the recurrent models the feature extractor returns a pair
\* (output, state): the state is the VRNN state for VradaModel and None for
\* RDannModel; RnnModelBase.call passes only the first element of the pair
\* to the task and domain classifiers and returns the whole pair as the
\* third element of its result.
C10_RecurrentFeaturePair ==
    (run.called /\ IsRnn(net.cls)) =>
        /\ run.raised = None
        /\ Len(FeResult) = 2
        /\ FeResult[1].op = "fe_output"
        /\ IF net.cls = "VradaModel"
           THEN /\ FeResult[2].op = "rnn_state"
                /\ FeResult[2].layer.made_by = "VRNN"
                /\ FeResult[2].args = run.hooks[1].args
           ELSE FeResult[2] = NoneTerm
        /\ run.hooks[2].args = << FeResult[1] >>
        /\ run.hooks[3].args[1] = FeResult[1]
        /\ \A i \in Ran("task_classifier") : run.layers[i].in = FeResult[1]
        /\ \A i \in Ran("flip_gradient") : run.layers[i].in = FeResult[1]
        /\ Len(run.ret) = 3
        /\ run.ret[3] = FeResult

\* C10 witness: an RDannModel call, whose state is None.
C10_Witness ==
    /\ run.called
    /\ net.cls = "RDannModel"
    /\ Len(run.ret) = 3
    /\ run.ret[3][2] = NoneTerm
    /\ Ran("rnn_output") # {}


--------------------------------------------------------------------------
(* parse_file: the tables against the lines of the file *)

\* The line of the file at position i as parse_file looks at it
StrippedLine(i) == Strip(file[i])

\* The section a header line opens, "none" for a line that is no header
HeaderOf(line) ==
    IF beginning_match(valid_header, line) THEN "validation"
    ELSE IF beginning_match(traintest_header, line) THEN "traintest"
    ELSE IF beginning_match(averages_header, line) THEN "averages"
    ELSE "none"

\* Line i is empty or a section header: what begins or ends a section
IsBoundary(i) ==
    Len(StrippedLine(i)) = 0 \/ HeaderOf(StrippedLine(i)) # "none"

\* Line i is a non-empty data line: neither empty, a header nor one of the
\* two messages parse_file looks for
IsDataLine(i) ==
    /\ ~IsBoundary(i)
    /\ StrippedLine(i) \notin {VirtualDevices, ErrorOccured}

\* The section line i follows: that of the nearest header before it with no
\* empty line or other header in between, "none" if there is no such header
SectionAt(i) ==
    IF \E j \in 1..(i - 1) : IsBoundary(j)
    THEN HeaderOf(StrippedLine(CHOOSE j \in 1..(i - 1) :
                      /\ IsBoundary(j)
                      /\ \A k \in (j + 1)..(i - 1) : ~IsBoundary(k)))
    ELSE "none"

\* The row a data line makes in the table of a section
RowIn(section, values) ==
    IF section = "validation" THEN ValidationRow(values).row
    ELSE IF section = "traintest" THEN TraintestRow(values).row
    ELSE AveragesRow(values).row

\* One row for every data line from position i on that follows a header of
\* the section, in file order
RECURSIVE SectionRows(_, _)
SectionRows(section, i) ==
    IF i > Len(file) THEN << >>
    ELSE IF IsDataLine(i) /\ SectionAt(i) = section
    THEN <<RowIn(section, smart_split(StrippedLine(i)))>>
           \o SectionRows(section, i + 1)
    ELSE SectionRows(section, i + 1)

\* C6: when parse_file returns its three tables, each table holds exactly
\* one row for every non-empty data line that follows a header of its
\* section with no empty line or other header in between, the rows are in
\* file order, and the table holds no row of any other line.
C6_TablesFollowSections ==
    parsed.status = "tables" =>
        /\ parsed.validation = SectionRows("validation", 1)
        /\ parsed.traintest = SectionRows("traintest", 1)
        /\ parsed.averages = SectionRows("averages", 1)

\* A file parsed into tables whose validation section holds two different
\* data lines, next to a data line that is in another section or in none
C6_Witness ==
    /\ parsed.status = "tables"
    /\ Len(parsed.validation) = 2
    /\ parsed.validation[1] # parsed.validation[2]
    /\ \E i \in 1..Len(file) : IsDataLine(i) /\ SectionAt(i) # "validation"

--------------------------------------------------------------------------
(* parse_file line by line, checked under SpecRead *)

Tables == {"validation", "traintest", "averages"}

\* Line i comes after an empty line with no section header read since
AfterEmptyLine(i) ==
    \E j \in 1..(i - 1) :
        /\ Len(StrippedLine(j)) = 0
        /\ \A k \in (j + 1)..(i - 1) : HeaderOf(StrippedLine(k)) = "none"

\* The step is one iteration of the loop, on the line at reader'.pos
ReadsLine == reader.phase = "open" /\ reader'.pos = reader.pos + 1

\* C11: an empty line ends the current section: an iteration of the loop
\* on a line that comes after an empty line, with no section header read in
\* between, adds no row to any of the three tables.
C11_EmptyLineEndsSection ==
    [][(ReadsLine /\ AfterEmptyLine(reader'.pos)) =>
           \A t \in Tables :
               reader'.st[t] = reader.st[t] \/ reader'.st[t] = << >>]_vars

\* A data line has been read after an empty line that ended a validation
\* section holding one row, and the row is still the only one
C11_Witness ==
    /\ reader.phase = "open"
    /\ reader.pos >= 3
    /\ IsDataLine(reader.pos)
    /\ AfterEmptyLine(reader.pos)
    /\ Len(reader.st.validation) = 1

\* C13: an iteration of the loop on the line 'Error occured -- exiting'
\* ends the program with exit status 1 and without tables, whatever section
\* was active and whatever rows had been collected.
C13_ErrorLineExits ==
    [][(ReadsLine /\ StrippedLine(reader'.pos) = ErrorOccured) =>
           /\ reader'.phase = "done"
           /\ reader'.st.status = "exit"
           /\ reader'.st.exit_status = 1
           /\ \A t \in Tables : reader'.st[t] = << >>]_vars

\* The line has been read inside a validation section that held a row, and
\* the program has exited
C13_Witness ==
    /\ reader.phase = "done"
    /\ reader.st.status = "exit"
    /\ reader.pos >= 3
    /\ StrippedLine(reader.pos) = ErrorOccured
    /\ SectionAt(reader.pos) = "validation"
    /\ IsDataLine(reader.pos - 1)
    /\ SectionAt(reader.pos - 1) = "validation"

\* The comma-separated fields of line i as the log holds them (no name in
\* LineBodies contains a comma)
FieldsOf(i) == Split(StrippedLine(i), ",")

\* Line i is a data line with first field 'No data.', or a data line of a
\* validation section with Best Step field 'None'
NoDataOrNoBestStep(i) ==
    /\ IsDataLine(i)
    /\ \/ FieldsOf(i)[1] = NoData
       \/ /\ SectionAt(i) = "validation"
          /\ Len(FieldsOf(i)) >= 6
          /\ FieldsOf(i)[6] = "None"

\* C12: parse_file returns None, with the rows collected so far discarded,
\* in the iteration of the loop that reads a data line whose first field is
\* 'No data.' or a data line of the validation section whose Best Step
\* field is 'None', and in no other iteration.
C12_AsClaimed ==
    [][ReadsLine =>
           /\ reader'.st.status = "None" <=> NoDataOrNoBestStep(reader'.pos)
           /\ reader'.st.status = "None" =>
                  \A t \in Tables : reader'.st[t] = << >>]_vars

--------------------------------------------------------------------------
(* smart_split, checked under SpecSplit *)

HasComma(s) == FindAny(s, {","}, 1) > 0

\* C14: for a line that starts with a log-directory name of the form
\* dir/source-target-model-method-suffix, smart_split returns the name,
\* then the whole source name, then the remaining comma-separated fields
\* unaltered; when the source name holds no comma, and for a line of another
\* form, the result is line.split(',').
C14_AsClaimed ==
    splitValues.called =>
        IF splitLine.form
        THEN /\ splitValues.result
                  = <<splitLine.name, splitLine.source>>
                      \o Split(splitLine.remaining, ",")
             /\ ~HasComma(splitLine.source) =>
                    splitValues.result = Split(splitLine.text, ",")
        ELSE splitValues.result = Split(splitLine.text, ",")

--------------------------------------------------------------------------
(* The aggregation step of plot_multisource, checked under SpecPlot *)

\* The number of source domains an n stands for
NumberOf(n) == DigitsValue(n.digits)

\* The results of a dataset and method, and those of them with n source
\* domains
ResultsOf(dataset, method) ==
    { i \in 1..Len(results) :
        /\ PrettyTarget(results[i].parameters.target) = dataset
        /\ results[i].parameters.method = method }

ResultsWith(dataset, method, number) ==
    { i \in ResultsOf(dataset, method) :
        NumberOf(results[i].parameters.n) = number }

\* The accuracy and the deviation a result brings to the plot
AccuracyOf(i) == Plotted(results[i].parameters.method, results[i].averages)

\* The sum of the accuracies of the results in a set, and of their squares
RECURSIVE SumAccuracy(_)
SumAccuracy(set) ==
    IF set = {} THEN 0
    ELSE LET i == CHOOSE i \in set : TRUE
         IN  AccuracyOf(i).Avg + SumAccuracy(set \ {i})

RECURSIVE SumSquaredAccuracy(_)
SumSquaredAccuracy(set) ==
    IF set = {} THEN 0
    ELSE LET i == CHOOSE i \in set : TRUE
         IN  AccuracyOf(i).Avg * AccuracyOf(i).Avg
               + SumSquaredAccuracy(set \ {i})

\* The row is the mean and the population standard deviation of the
\* accuracies of the results in the set: mean = sum / count and
\* std^2 = sum of squares / count - mean^2
IsMeanStdOf(row, set, count) ==
    /\ row.mean.root = FALSE
    /\ row.mean.num * count = row.mean.den * SumAccuracy(set)
    /\ row.std.num * count * count
         = row.std.den * (count * SumSquaredAccuracy(set)
                            - SumAccuracy(set) * SumAccuracy(set))
    /\ row.std.root = (row.std.num # 0)

\* The row holds the values of the one result in the set as they are
IsResult(row, set) ==
    \A i \in set :
        row = RowOfResult(results[i].parameters.n, AccuracyOf(i))

\* The rows of a dataset and method are as C15 says
RowsAsClaimed(rows, dataset, method) ==
    /\ \A k \in 1..(Len(rows) - 1) :
           NumberOf(rows[k].n) < NumberOf(rows[k + 1].n)
    /\ { NumberOf(rows[k].n) : k \in 1..Len(rows) }
         = { NumberOf(results[i].parameters.n) : i \in ResultsOf(dataset, method) }
    /\ \A k \in 1..Len(rows) :
           LET set == ResultsWith(dataset, method, NumberOf(rows[k].n))
           IN  IF Cardinality(set) > 1
               THEN IsMeanStdOf(rows[k], set, Cardinality(set))
               ELSE IsResult(rows[k], set)

\* C15: once the aggregation step of plot_multisource has run, every
\* dataset and method has exactly one row (n, mean, std) for every distinct
\* number of source domains n among its results, the rows ascend in n, the
\* row of an n with several results holds the mean and the population
\* standard deviation of their accuracies, and the row of an n with one
\* result holds that result's values as they are.
C15_AsClaimed ==
    ms_results.called =>
        /\ ms_results.exception = None
        /\ \A i \in 1..Len(results) :
               LET dataset == PrettyTarget(results[i].parameters.target)
                   method == results[i].parameters.method
               IN  /\ DictHas(ms_results.table, dataset)
                   /\ DictHas(DictGet(ms_results.table, dataset), method)
                   /\ RowsAsClaimed(
                          DictGet(DictGet(ms_results.table, dataset), method),
                          dataset, method)

==========================================================================
